---- MODULE Spec2Model ----
(***************************************************************************)
(* A model of ewasm_api (src/src/lib.rs): the safe wrappers around the     *)
(* Ethereum Environment Interface.  The contract program is a sequence of  *)
(* wrapper invocations; the host is the environment the `native` block     *)
(* declares.  Each step of the model is one whole wrapper invocation,      *)
(* every native call it issues included.                                   *)
(***************************************************************************)
EXTENDS Integers, Sequences, FiniteSets, TLC

VARIABLES
    status,      \* "running", or how the execution ended
    op,          \* the wrapper invoked last, with its arguments
    ret,         \* what that wrapper returned to the consumer
    hostCalls,   \* the native calls that wrapper issued, in order
    calldata,    \* host: the call data of the executing call
    code,        \* host: the running code
    extcode,     \* host: the code at each address
    returndata,  \* host: the return buffer of the last call / create
    storage,     \* host: the contract's storage
    stored       \* history: per key, the value last passed to storage_store

vars == <<status, op, ret, hostCalls, calldata, code, extcode, returndata, storage, stored>>

(***************************************************************************)
(* Bounds.  The integer widths are scaled down: u32 is 0..U32_MAX and      *)
(* usize is 0..USIZE_MAX, usize at least as wide as u32.                   *)
(***************************************************************************)
U32_MAX == 5
USIZE_MAX == 6
MaxSize == 2

U32 == 0..U32_MAX
Usize == 0..USIZE_MAX

\* `x as u32`: narrowing keeps the low bits.
as_u32(x) == x % (U32_MAX + 1)

\* `x as usize` of a u32.
as_usize(x) == x % (USIZE_MAX + 1)

\* usize subtraction as the release build computes it (wrapping).
usize_sub(a, b) == (a - b) % (USIZE_MAX + 1)

\* Fixed-width values: 20-byte addresses, 32-byte keys, values and topics,
\* 16-byte ether values; each default() is the all-zero value.
Addresses == {0, 1}
Bytes32 == {0, 1}
EtherValues == {0, 1}
Gas == {0, 1}
Address_default == 0

\* A raw pointer handed to the host: null, or the address of a value.
NullPtr == [null |-> TRUE]
PtrTo(v) == [null |-> FALSE, target |-> v]

\* The content of a byte the allocator left unwritten.
Uninit == -1

\* Host buffers: n bytes, byte i of the buffer tagged `seed` is seed + i.
HostBuffer(seed, n) == [i \in 1..n |-> seed + i]
HostSizes == 0..(IF MaxSize < U32_MAX THEN MaxSize ELSE U32_MAX)
CallDataBuffers == {HostBuffer(16, n) : n \in HostSizes}
CodeBuffers == {HostBuffer(32, n) : n \in HostSizes}
ExtCodeBuffers(a) == {HostBuffer(48 + 16 * a, n) : n \in HostSizes}
ReturnDataBuffers == {HostBuffer(96, n) : n \in HostSizes}

\* Payloads the consumer passes in (&[u8]); a slice's length is a usize.  The
\* lengths tried: empty, one byte, and the shortest that does not fit a u32.
DataSlice(n) == [i \in 1..n |-> 128 + i]
DataLens == {n \in {0, 1, U32_MAX + 1} : n <= USIZE_MAX}
DataSlices == {DataSlice(n) : n \in DataLens}

(***************************************************************************)
(* What one wrapper invocation does: the native calls issued, how control  *)
(* leaves the wrapper, the value returned, and the host state afterwards.  *)
(***************************************************************************)
Outcome(calls, st, r) ==
    [calls |-> calls, status |-> st, ret |-> r,
     returndata |-> returndata, storage |-> storage]

NoReturn == [tag |-> "diverged"]
Vec(bytes) == [tag |-> "Vec", val |-> bytes]
Ok(v) == [tag |-> "Ok", val |-> v]
Err(e) == [tag |-> "Err", err |-> e]
Value(v) == [tag |-> "value", val |-> v]
Unit == [tag |-> "unit"]

\* Vec::with_capacity(len) followed by set_len(len): len unwritten bytes.
unsafe_alloc_buffer(len) == [i \in 1..len |-> Uninit]

(***************************************************************************)
(* The host's copy primitives (callDataCopy, codeCopy, externalCodeCopy,   *)
(* returnDataCopy): write `length` bytes of the source, from `dataOffset`, *)
(* to the start of the result region.  A range that leaves the source is   *)
(* outside the interface's contract: the host either traps, or copies the  *)
(* bytes that exist and leaves the rest of the region as it was.           *)
(***************************************************************************)
HostOobOutcomes == {"trap", "partial"}

HostCopyInBounds(src, dataOffset, length) == dataOffset + length <= Len(src)

HostCopy(src, buf, dataOffset, length) ==
    [i \in 1..Len(buf) |->
        IF i <= length /\ dataOffset + i <= Len(src)
        THEN src[dataOffset + i]
        ELSE buf[i]]

\* One unchecked copy: allocate, then one native copy call.
UnsafeCopy(call, src, length, oob) ==
    LET buf == unsafe_alloc_buffer(length)
    IN  IF HostCopyInBounds(src, call.dataOffset, call.length) \/ oob = "partial"
        THEN Outcome(<<call>>, "running",
                     Vec(HostCopy(src, buf, call.dataOffset, call.length)))
        ELSE Outcome(<<call>>, "trapped", NoReturn)

\* The bounds test of the checked copies, on usize values.
out_of_bounds_wrapping(size, from, length) == usize_sub(size, from) < length

out_of_bounds_strict(size, from, length) ==
    (size <= from) \/ (usize_sub(size, from) < length)

out_of_bounds(size, from, length) ==
    (size < from) \/ (usize_sub(size, from) < length)

\* Ok(..) around an unchecked copy that returned; a trap stays a trap.
OkOf(out) ==
    IF out.status = "running" THEN [out EXCEPT !.ret = Ok(out.ret.val)] ELSE out

\* A wrapper that first queries the size, then runs `out`.
AfterSize(sizeCall, out) == [out EXCEPT !.calls = <<sizeCall>> \o out.calls]

(***************************************************************************)
(* Call data.                                                              *)
(***************************************************************************)
ethereum_getCallDataSize == [fn |-> "ethereum_getCallDataSize", result |-> Len(calldata)]

calldata_size == as_usize(ethereum_getCallDataSize.result)

unsafe_calldata_copy_swapped(from, length, oob) ==
    UnsafeCopy([fn |-> "ethereum_callDataCopy",
                dataOffset |-> as_u32(length), length |-> as_u32(from)],
               calldata, length, oob)

\* The casts made to a type too narrow for the sizes the host reports.
unsafe_calldata_copy_narrower(from, length, oob) ==
    UnsafeCopy([fn |-> "ethereum_callDataCopy",
                dataOffset |-> from % MaxSize, length |-> length % MaxSize],
               calldata, length, oob)

unsafe_calldata_copy(from, length, oob) ==
    UnsafeCopy([fn |-> "ethereum_callDataCopy",
                dataOffset |-> as_u32(from), length |-> as_u32(length)],
               calldata, length, oob)

calldata_acquire_short(oob) ==
    AfterSize(ethereum_getCallDataSize,
              unsafe_calldata_copy(0, usize_sub(calldata_size, 1), oob))

calldata_acquire(oob) ==
    AfterSize(ethereum_getCallDataSize, unsafe_calldata_copy(0, calldata_size, oob))

calldata_copy(from, length, oob) ==
    LET size == calldata_size
    IN  IF out_of_bounds(size, from, length)
        THEN Outcome(<<ethereum_getCallDataSize>>, "running", Err("OutOfBoundsCopy"))
        ELSE AfterSize(ethereum_getCallDataSize,
                       OkOf(unsafe_calldata_copy(from, length, oob)))

(***************************************************************************)
(* Running code.                                                           *)
(***************************************************************************)
ethereum_getCodeSize == [fn |-> "ethereum_getCodeSize", result |-> Len(code)]

code_size == as_usize(ethereum_getCodeSize.result)

unsafe_code_copy(from, length, oob) ==
    UnsafeCopy([fn |-> "ethereum_codeCopy",
                dataOffset |-> as_u32(from), length |-> as_u32(length)],
               code, length, oob)

code_acquire(oob) ==
    AfterSize(ethereum_getCodeSize, unsafe_code_copy(0, code_size, oob))

code_copy(from, length, oob) ==
    LET size == code_size
    IN  IF out_of_bounds(size, from, length)
        THEN Outcome(<<ethereum_getCodeSize>>, "running", Err("OutOfBoundsCopy"))
        ELSE AfterSize(ethereum_getCodeSize,
                       OkOf(unsafe_code_copy(from, length, oob)))

(***************************************************************************)
(* External code.                                                          *)
(***************************************************************************)
ethereum_getExternalCodeSize(address) ==
    [fn |-> "ethereum_getExternalCodeSize", addressOffset |-> PtrTo(address),
     result |-> Len(extcode[address])]

external_code_size(address) == as_usize(ethereum_getExternalCodeSize(address).result)

unsafe_external_code_copy(address, from, length, oob) ==
    UnsafeCopy([fn |-> "ethereum_externalCodeCopy", addressOffset |-> PtrTo(address),
                dataOffset |-> as_u32(from), length |-> as_u32(length)],
               extcode[address], length, oob)

external_code_acquire(address, oob) ==
    AfterSize(ethereum_getExternalCodeSize(address),
              unsafe_external_code_copy(address, 0, external_code_size(address), oob))

external_code_copy(address, from, length, oob) ==
    LET size == external_code_size(address)
    IN  IF out_of_bounds(size, from, length)
        THEN Outcome(<<ethereum_getExternalCodeSize(address)>>, "running",
                     Err("OutOfBoundsCopy"))
        ELSE AfterSize(ethereum_getExternalCodeSize(address),
                       OkOf(unsafe_external_code_copy(address, from, length, oob)))

(***************************************************************************)
(* Return data.                                                            *)
(***************************************************************************)
ethereum_getReturnDataSize == [fn |-> "ethereum_getReturnDataSize", result |-> Len(returndata)]

returndata_size == as_usize(ethereum_getReturnDataSize.result)

unsafe_returndata_copy(from, length, oob) ==
    UnsafeCopy([fn |-> "ethereum_returnDataCopy",
                dataOffset |-> as_u32(from), length |-> as_u32(length)],
               returndata, length, oob)

returndata_acquire(oob) ==
    AfterSize(ethereum_getReturnDataSize, unsafe_returndata_copy(0, returndata_size, oob))

returndata_copy(from, length, oob) ==
    LET size == returndata_size
    IN  IF out_of_bounds(size, from, length)
        THEN Outcome(<<ethereum_getReturnDataSize>>, "running", Err("OutOfBoundsCopy"))
        ELSE AfterSize(ethereum_getReturnDataSize,
                       OkOf(unsafe_returndata_copy(from, length, oob)))

(***************************************************************************)
(* The size queries as public wrappers.                                    *)
(***************************************************************************)
SizeQuery(call) == Outcome(<<call>>, "running", Value(as_usize(call.result)))

(***************************************************************************)
(* Logging.                                                                *)
(***************************************************************************)
log(data, topic_count, topic1, topic2, topic3, topic4) ==
    Outcome(<<[fn |-> "ethereum_log",
               dataOffset |-> PtrTo(data), length |-> as_u32(Len(data)),
               numberOfTopics |-> as_u32(topic_count),
               topic1 |-> topic1, topic2 |-> topic2,
               topic3 |-> topic3, topic4 |-> topic4]>>,
            "running", Unit)

log0(data) == log(data, 0, NullPtr, NullPtr, NullPtr, NullPtr)

log1(data, topic1) == log(data, 1, PtrTo(topic1), NullPtr, NullPtr, NullPtr)

log2_one_topic(data, topic1, topic2) ==
    log(data, 2, PtrTo(topic1), NullPtr, NullPtr, NullPtr)

log2(data, topic1, topic2) ==
    log(data, 2, PtrTo(topic1), PtrTo(topic2), NullPtr, NullPtr)

log3(data, topic1, topic2, topic3) ==
    log(data, 3, PtrTo(topic1), PtrTo(topic2), PtrTo(topic3), NullPtr)

log4(data, topic1, topic2, topic3, topic4) ==
    log(data, 4, PtrTo(topic1), PtrTo(topic2), PtrTo(topic3), PtrTo(topic4))

(***************************************************************************)
(* Calls.  The host answers with a u32 code and leaves the callee's output *)
(* in the return buffer.                                                   *)
(***************************************************************************)
HostCallAnswers == [code : U32, returndata : ReturnDataBuffers]

\* What a call wrapper does once the host has answered `call.result`.
Returned(call, host, r) ==
    [Outcome(<<call>>, "running", r) EXCEPT !.returndata = host.returndata]

Panicked(call, host) ==
    [Outcome(<<call>>, "panicked", NoReturn) EXCEPT !.returndata = host.returndata]

call_mutable(gas_limit, address, value, data, host) ==
    LET call == [fn |-> "ethereum_call", gas |-> gas_limit,
                 addressOffset |-> PtrTo(address), valueOffset |-> PtrTo(value),
                 dataOffset |-> PtrTo(data), dataLength |-> as_u32(Len(data)),
                 result |-> host.code]
    IN  CASE call.result = 0 -> Returned(call, host, [tag |-> "Successful"])
          [] call.result = 1 -> Returned(call, host, [tag |-> "Failure"])
          [] call.result = 2 -> Returned(call, host, [tag |-> "Revert"])
          [] OTHER -> Panicked(call, host)

call_code(gas_limit, address, value, data, host) ==
    LET call == [fn |-> "ethereum_callCode", gas |-> gas_limit,
                 addressOffset |-> PtrTo(address), valueOffset |-> PtrTo(value),
                 dataOffset |-> PtrTo(data), dataLength |-> as_u32(Len(data)),
                 result |-> host.code]
    IN  CASE call.result = 0 -> Returned(call, host, [tag |-> "Successful"])
          [] call.result = 1 -> Returned(call, host, [tag |-> "Failure"])
          [] call.result = 2 -> Returned(call, host, [tag |-> "Revert"])
          [] OTHER -> Panicked(call, host)

call_delegate(gas_limit, address, data, host) ==
    LET call == [fn |-> "ethereum_callDelegate", gas |-> gas_limit,
                 addressOffset |-> PtrTo(address),
                 dataOffset |-> PtrTo(data), dataLength |-> as_u32(Len(data)),
                 result |-> host.code]
    IN  CASE call.result = 0 -> Returned(call, host, [tag |-> "Successful"])
          [] call.result = 1 -> Returned(call, host, [tag |-> "Failure"])
          [] call.result = 2 -> Returned(call, host, [tag |-> "Revert"])
          [] OTHER -> Panicked(call, host)

call_static_coercing(gas_limit, address, data, host) ==
    LET call == [fn |-> "ethereum_callStatic", gas |-> gas_limit,
                 addressOffset |-> PtrTo(address),
                 dataOffset |-> PtrTo(data), dataLength |-> as_u32(Len(data)),
                 result |-> host.code]
    IN  CASE call.result = 0 -> Returned(call, host, [tag |-> "Successful"])
          [] call.result = 2 -> Returned(call, host, [tag |-> "Revert"])
          [] OTHER -> Returned(call, host, [tag |-> "Failure"])

call_static(gas_limit, address, data, host) ==
    LET call == [fn |-> "ethereum_callStatic", gas |-> gas_limit,
                 addressOffset |-> PtrTo(address),
                 dataOffset |-> PtrTo(data), dataLength |-> as_u32(Len(data)),
                 result |-> host.code]
    IN  CASE call.result = 0 -> Returned(call, host, [tag |-> "Successful"])
          [] call.result = 1 -> Returned(call, host, [tag |-> "Failure"])
          [] call.result = 2 -> Returned(call, host, [tag |-> "Revert"])
          [] OTHER -> Panicked(call, host)

(***************************************************************************)
(* Create.  The host answers with a code and may write a 20-byte address   *)
(* into the output slot, which starts as Address::default().               *)
(***************************************************************************)
HostCreateAnswers ==
    [code : U32, wrote : BOOLEAN, address : Addresses, returndata : ReturnDataBuffers]

create_always_address(value, data, host) ==
    LET address == IF host.wrote THEN host.address ELSE Address_default
        call == [fn |-> "ethereum_create", valueOffset |-> PtrTo(value),
                 dataOffset |-> PtrTo(data), dataLength |-> as_u32(Len(data)),
                 resultOffset |-> PtrTo(address), result |-> host.code]
    IN  CASE call.result \in {0, 1} ->
               Returned(call, host, [tag |-> "Successful", address |-> address])
          [] call.result = 2 -> Returned(call, host, [tag |-> "Revert"])
          [] OTHER -> Panicked(call, host)

create(value, data, host) ==
    LET address == IF host.wrote THEN host.address ELSE Address_default
        call == [fn |-> "ethereum_create", valueOffset |-> PtrTo(value),
                 dataOffset |-> PtrTo(data), dataLength |-> as_u32(Len(data)),
                 resultOffset |-> PtrTo(address), result |-> host.code]
    IN  CASE call.result = 0 ->
               Returned(call, host, [tag |-> "Successful", address |-> address])
          [] call.result = 1 -> Returned(call, host, [tag |-> "Failure"])
          [] call.result = 2 -> Returned(call, host, [tag |-> "Revert"])
          [] OTHER -> Panicked(call, host)

(***************************************************************************)
(* Termination: the native functions are declared `-> !`.                  *)
(***************************************************************************)
revert ==
    Outcome(<<[fn |-> "ethereum_revert", dataOffset |-> NullPtr, length |-> 0]>>,
            "reverted", NoReturn)

revert_data(data) ==
    Outcome(<<[fn |-> "ethereum_revert", dataOffset |-> PtrTo(data),
               length |-> as_u32(Len(data))]>>,
            "reverted", NoReturn)

finish_returning ==
    Outcome(<<[fn |-> "ethereum_finish", dataOffset |-> NullPtr, length |-> 0]>>,
            "running", Unit)

finish ==
    Outcome(<<[fn |-> "ethereum_finish", dataOffset |-> NullPtr, length |-> 0]>>,
            "finished", NoReturn)

finish_data(data) ==
    Outcome(<<[fn |-> "ethereum_finish", dataOffset |-> PtrTo(data),
               length |-> as_u32(Len(data))]>>,
            "finished", NoReturn)

selfdestruct(address) ==
    Outcome(<<[fn |-> "ethereum_selfDestruct", addressOffset |-> PtrTo(address)]>>,
            "selfdestructed", NoReturn)

(***************************************************************************)
(* Storage.  The host reads the key (and the value) through the pointers   *)
(* it is given.                                                            *)
(***************************************************************************)
HostStorageLoad(call) == storage[call.keyOffset.target]

HostStorageStore(call) ==
    [storage EXCEPT ![call.keyOffset.target] = call.valueOffset.target]

storage_load(key) ==
    LET call == [fn |-> "ethereum_storageLoad", keyOffset |-> PtrTo(key)]
    IN  Outcome(<<call>>, "running", Value(HostStorageLoad(call)))

storage_store_swapped(key, value) ==
    LET call == [fn |-> "ethereum_storageStore",
                 keyOffset |-> PtrTo(value), valueOffset |-> PtrTo(key)]
    IN  [Outcome(<<call>>, "running", Unit) EXCEPT !.storage = HostStorageStore(call)]

storage_store(key, value) ==
    LET call == [fn |-> "ethereum_storageStore",
                 keyOffset |-> PtrTo(key), valueOffset |-> PtrTo(value)]
    IN  [Outcome(<<call>>, "running", Unit) EXCEPT !.storage = HostStorageStore(call)]

(***************************************************************************)
(* The consumer invokes wrapper `o` and it does `out`.  A wrapper is       *)
(* invoked only while the program runs and the consumer is between calls;  *)
(* nothing runs once control has left the program.                         *)
(***************************************************************************)
Idle == [name |-> "none"]
Nothing == [tag |-> "none"]

\* The consumer is between two wrapper calls.
CanInvoke == status = "running" /\ op = Idle

Invoke(o, out) ==
    /\ CanInvoke
    /\ op' = o
    /\ status' = out.status
    /\ ret' = out.ret
    /\ hostCalls' = out.calls
    /\ returndata' = out.returndata
    /\ storage' = out.storage
    /\ stored' = IF o.name = "storage_store"
                 THEN [stored EXCEPT ![o.key] = <<o.value>>]
                 ELSE stored
    /\ UNCHANGED <<calldata, code, extcode>>

\* The wrapper has returned: the consumer goes on to its next statement.
Continue ==
    /\ status = "running"
    /\ op # Idle
    /\ op' = Idle
    /\ ret' = Nothing
    /\ hostCalls' = <<>>
    /\ UNCHANGED <<status, calldata, code, extcode, returndata, storage, stored>>

CopyArgs(n, from, length) == [name |-> n, from |-> from, length |-> length]
ExtCopyArgs(n, a, from, length) ==
    [name |-> n, address |-> a, from |-> from, length |-> length]

NextCopy ==
    \/ CanInvoke /\ \E from \in Usize, length \in Usize, oob \in HostOobOutcomes :
         Invoke(CopyArgs("unsafe_calldata_copy", from, length),
                unsafe_calldata_copy(from, length, oob))
    \/ CanInvoke /\ \E oob \in HostOobOutcomes :
         Invoke([name |-> "calldata_acquire"], calldata_acquire(oob))
    \/ CanInvoke /\ \E from \in Usize, length \in Usize, oob \in HostOobOutcomes :
         Invoke(CopyArgs("calldata_copy", from, length),
                calldata_copy(from, length, oob))
    \/ Invoke([name |-> "calldata_size"], SizeQuery(ethereum_getCallDataSize))
    \/ CanInvoke /\ \E from \in Usize, length \in Usize, oob \in HostOobOutcomes :
         Invoke(CopyArgs("unsafe_code_copy", from, length),
                unsafe_code_copy(from, length, oob))
    \/ CanInvoke /\ \E oob \in HostOobOutcomes :
         Invoke([name |-> "code_acquire"], code_acquire(oob))
    \/ CanInvoke /\ \E from \in Usize, length \in Usize, oob \in HostOobOutcomes :
         Invoke(CopyArgs("code_copy", from, length), code_copy(from, length, oob))
    \/ Invoke([name |-> "code_size"], SizeQuery(ethereum_getCodeSize))
    \/ CanInvoke /\ \E a \in Addresses, from \in Usize, length \in Usize, oob \in HostOobOutcomes :
         Invoke(ExtCopyArgs("unsafe_external_code_copy", a, from, length),
                unsafe_external_code_copy(a, from, length, oob))
    \/ CanInvoke /\ \E a \in Addresses, oob \in HostOobOutcomes :
         Invoke([name |-> "external_code_acquire", address |-> a],
                external_code_acquire(a, oob))
    \/ CanInvoke /\ \E a \in Addresses, from \in Usize, length \in Usize, oob \in HostOobOutcomes :
         Invoke(ExtCopyArgs("external_code_copy", a, from, length),
                external_code_copy(a, from, length, oob))
    \/ CanInvoke /\ \E a \in Addresses :
         Invoke([name |-> "external_code_size", address |-> a],
                SizeQuery(ethereum_getExternalCodeSize(a)))
    \/ CanInvoke /\ \E from \in Usize, length \in Usize, oob \in HostOobOutcomes :
         Invoke(CopyArgs("unsafe_returndata_copy", from, length),
                unsafe_returndata_copy(from, length, oob))
    \/ CanInvoke /\ \E oob \in HostOobOutcomes :
         Invoke([name |-> "returndata_acquire"], returndata_acquire(oob))
    \/ CanInvoke /\ \E from \in Usize, length \in Usize, oob \in HostOobOutcomes :
         Invoke(CopyArgs("returndata_copy", from, length),
                returndata_copy(from, length, oob))
    \/ Invoke([name |-> "returndata_size"], SizeQuery(ethereum_getReturnDataSize))

CallArgs(n, g, a, v, d) ==
    [name |-> n, gas_limit |-> g, address |-> a, value |-> v, data |-> d]
CallArgsNoValue(n, g, a, d) ==
    [name |-> n, gas_limit |-> g, address |-> a, data |-> d]

NextCall ==
    \/ CanInvoke /\ \E g \in Gas, a \in Addresses, v \in EtherValues, d \in DataSlices,
          host \in HostCallAnswers :
         Invoke(CallArgs("call_mutable", g, a, v, d), call_mutable(g, a, v, d, host))
    \/ CanInvoke /\ \E g \in Gas, a \in Addresses, v \in EtherValues, d \in DataSlices,
          host \in HostCallAnswers :
         Invoke(CallArgs("call_code", g, a, v, d), call_code(g, a, v, d, host))
    \/ CanInvoke /\ \E g \in Gas, a \in Addresses, d \in DataSlices, host \in HostCallAnswers :
         Invoke(CallArgsNoValue("call_delegate", g, a, d), call_delegate(g, a, d, host))
    \/ CanInvoke /\ \E g \in Gas, a \in Addresses, d \in DataSlices, host \in HostCallAnswers :
         Invoke(CallArgsNoValue("call_static", g, a, d), call_static(g, a, d, host))
    \/ CanInvoke /\ \E v \in EtherValues, d \in DataSlices, host \in HostCreateAnswers :
         Invoke([name |-> "create", value |-> v, data |-> d], create(v, d, host))

NextLog ==
    \/ CanInvoke /\ \E d \in DataSlices :
         Invoke([name |-> "log0", data |-> d, topics |-> <<>>], log0(d))
    \/ CanInvoke /\ \E d \in DataSlices, t1 \in Bytes32 :
         Invoke([name |-> "log1", data |-> d, topics |-> <<t1>>], log1(d, t1))
    \/ CanInvoke /\ \E d \in DataSlices, t1 \in Bytes32, t2 \in Bytes32 :
         Invoke([name |-> "log2", data |-> d, topics |-> <<t1, t2>>], log2(d, t1, t2))
    \/ CanInvoke /\ \E d \in DataSlices, t1 \in Bytes32, t2 \in Bytes32, t3 \in Bytes32 :
         Invoke([name |-> "log3", data |-> d, topics |-> <<t1, t2, t3>>],
                log3(d, t1, t2, t3))
    \/ CanInvoke /\ \E d \in DataSlices, t1 \in Bytes32, t2 \in Bytes32, t3 \in Bytes32,
          t4 \in Bytes32 :
         Invoke([name |-> "log4", data |-> d, topics |-> <<t1, t2, t3, t4>>],
                log4(d, t1, t2, t3, t4))

NextTerminate ==
    \/ Invoke([name |-> "revert"], revert)
    \/ CanInvoke /\ \E d \in DataSlices : Invoke([name |-> "revert_data", data |-> d], revert_data(d))
    \/ Invoke([name |-> "finish"], finish)
    \/ CanInvoke /\ \E d \in DataSlices : Invoke([name |-> "finish_data", data |-> d], finish_data(d))
    \/ CanInvoke /\ \E a \in Addresses :
         Invoke([name |-> "selfdestruct", address |-> a], selfdestruct(a))

NextStorage ==
    \/ CanInvoke /\ \E k \in Bytes32 : Invoke([name |-> "storage_load", key |-> k], storage_load(k))
    \/ CanInvoke /\ \E k \in Bytes32, v \in Bytes32 :
         Invoke([name |-> "storage_store", key |-> k, value |-> v], storage_store(k, v))

Next == NextCopy \/ NextCall \/ NextLog \/ NextTerminate \/ NextStorage \/ Continue

(***************************************************************************)
(* Initial states.  No wrapper has run: the return buffer is empty and     *)
(* nothing has been stored by this execution.  The environment is any one  *)
(* the host can present: any sizes for the call data, the running code and *)
(* the code at address 1 (address 0 holds no code), and any storage.       *)
(***************************************************************************)
Init ==
    /\ status = "running"
    /\ op = Idle
    /\ ret = Nothing
    /\ hostCalls = <<>>
    /\ stored = [k \in Bytes32 |-> <<>>]
    /\ calldata \in CallDataBuffers
    /\ code \in CodeBuffers
    /\ extcode \in {f \in [Addresses -> UNION {ExtCodeBuffers(a) : a \in Addresses}] :
                      /\ \A a \in Addresses : f[a] \in ExtCodeBuffers(a)
                      /\ f[0] = <<>>}
    /\ returndata = <<>>
    /\ storage \in [Bytes32 -> Bytes32]

Spec == Init /\ [][Next]_vars

(***************************************************************************)
(* Properties.                                                             *)
(***************************************************************************)
CheckedCopies == {"calldata_copy", "code_copy", "external_code_copy", "returndata_copy"}
UncheckedCopies == {"unsafe_calldata_copy", "unsafe_code_copy",
                    "unsafe_external_code_copy", "unsafe_returndata_copy"}
Acquires == {"calldata_acquire", "code_acquire", "external_code_acquire",
             "returndata_acquire"}
CallVariants == {"call_mutable", "call_code", "call_delegate", "call_static"}
Logs == {"log0", "log1", "log2", "log3", "log4"}
TerminationCalls == {"ethereum_finish", "ethereum_revert", "ethereum_selfDestruct"}

\* The external buffer the last operation reads.
ExternalBuffer ==
    CASE op.name \in {"calldata_copy", "unsafe_calldata_copy", "calldata_acquire"} -> calldata
      [] op.name \in {"code_copy", "unsafe_code_copy", "code_acquire"} -> code
      [] op.name \in {"external_code_copy", "unsafe_external_code_copy",
                      "external_code_acquire"} -> extcode[op.address]
      [] op.name \in {"returndata_copy", "unsafe_returndata_copy",
                      "returndata_acquire"} -> returndata

\* What the matching unchecked copy returns for the last operation's range.
UncheckedResult(from, length) ==
    CASE op.name \in {"calldata_copy", "calldata_acquire"} ->
           unsafe_calldata_copy(from, length, "trap").ret
      [] op.name \in {"code_copy", "code_acquire"} ->
           unsafe_code_copy(from, length, "trap").ret
      [] op.name \in {"external_code_copy", "external_code_acquire"} ->
           unsafe_external_code_copy(op.address, from, length, "trap").ret
      [] op.name \in {"returndata_copy", "returndata_acquire"} ->
           unsafe_returndata_copy(from, length, "trap").ret

\* What the matching checked copy returns for the whole buffer.
CheckedWhole ==
    CASE op.name = "calldata_acquire" -> calldata_copy(0, calldata_size, "trap").ret
      [] op.name = "code_acquire" -> code_copy(0, code_size, "trap").ret
      [] op.name = "external_code_acquire" ->
           external_code_copy(op.address, 0, external_code_size(op.address), "trap").ret
      [] op.name = "returndata_acquire" ->
           returndata_copy(0, returndata_size, "trap").ret

\* C1: a checked copy whose range leaves the buffer (from > size, or
\* length > size - from) returns Err(OutOfBoundsCopy); size - from never wraps.
C1_OutOfBoundsRejected ==
    (/\ op.name \in CheckedCopies
     /\ \/ op.from > Len(ExternalBuffer)
        \/ op.length > Len(ExternalBuffer) - op.from)
    => (ret = Err("OutOfBoundsCopy") /\ status = "running")

C1_Witness ==
    /\ op.name = "calldata_copy"
    /\ Len(calldata) = MaxSize
    /\ op.from = Len(calldata)
    /\ op.length = 1
    /\ ret = Err("OutOfBoundsCopy")

\* C2: a checked copy with from + length <= size returns Ok with exactly the
\* bytes from .. from+length-1 of the buffer, the same bytes the matching
\* unchecked copy returns.
C2_InBoundsCopyEqualsUnchecked ==
    (op.name \in CheckedCopies /\ op.from + op.length <= Len(ExternalBuffer))
    => /\ status = "running"
       /\ ret = Ok(SubSeq(ExternalBuffer, op.from + 1, op.from + op.length))
       /\ Len(ret.val) = op.length
       /\ UncheckedResult(op.from, op.length) = Vec(ret.val)

C2_Witness ==
    /\ op.name = "calldata_copy"
    /\ Len(calldata) = 2
    /\ op.from = 1
    /\ op.length = 1
    /\ ret = Ok(<<calldata[2]>>)

\* C3: every acquire operation returns, with exactly size_of(buffer) bytes,
\* the whole buffer, which is what the checked copy of (0, size) returns.
C3_AcquireAll ==
    op.name \in Acquires
    => /\ status = "running"
       /\ ret.tag = "Vec"
       /\ Len(ret.val) = Len(ExternalBuffer)
       /\ ret.val = ExternalBuffer
       /\ CheckedWhole = Ok(ret.val)

C3_Witness ==
    /\ op.name = "calldata_acquire"
    /\ Len(calldata) = MaxSize
    /\ ret = Vec(calldata)

\* C4 as claimed: a checked copy of length zero returns Ok(empty) for every
\* from and every size.
C4_ZeroLengthAlwaysOk ==
    (op.name \in CheckedCopies /\ op.length = 0) => ret = Ok(<<>>)

\* C4 amended: a checked copy of length zero returns Ok(empty) for every
\* from <= size, the empty tail from = size included.
C4_ZeroLengthWithinSize ==
    (op.name \in CheckedCopies /\ op.length = 0 /\ op.from <= Len(ExternalBuffer))
    => (ret = Ok(<<>>) /\ status = "running")

C4_Witness ==
    /\ op.name = "calldata_copy"
    /\ Len(calldata) = MaxSize
    /\ op.from = Len(calldata)
    /\ op.length = 0
    /\ ret = Ok(<<>>)

\* C5: each call variant decodes the host's code the same way: 0 gives
\* Successful, 1 Failure, 2 Revert, and any other code panics without an
\* outcome being returned.
C5_CallDecoding ==
    op.name \in CallVariants
    => LET c == hostCalls[1].result
       IN  /\ Len(hostCalls) = 1
           /\ c = 0 => (status = "running" /\ ret = [tag |-> "Successful"])
           /\ c = 1 => (status = "running" /\ ret = [tag |-> "Failure"])
           /\ c = 2 => (status = "running" /\ ret = [tag |-> "Revert"])
           /\ c \notin {0, 1, 2} => (status = "panicked" /\ ret = NoReturn)

C5_Witness ==
    /\ op.name = "call_static"
    /\ hostCalls[1].result = 5
    /\ status = "panicked"
    /\ ret = NoReturn

\* C6: create returns Successful(a) exactly on code 0, a being the content of
\* the output slot after the host call; code 1 gives Failure and code 2 Revert,
\* neither with an address; any other code panics.
C6_CreateDecoding ==
    op.name = "create"
    => LET c == hostCalls[1].result
           slot == hostCalls[1].resultOffset.target
       IN  /\ c = 0 => (status = "running"
                        /\ ret = [tag |-> "Successful", address |-> slot])
           /\ c = 1 => (status = "running" /\ ret = [tag |-> "Failure"])
           /\ c = 2 => (status = "running" /\ ret = [tag |-> "Revert"])
           /\ c \notin {0, 1, 2} => (status = "panicked" /\ ret = NoReturn)
           /\ (ret.tag = "Successful") <=> (c = 0)

C6_Witness ==
    /\ op.name = "create"
    /\ hostCalls[1].result = 0
    /\ hostCalls[1].resultOffset.target = 1
    /\ ret = [tag |-> "Successful", address |-> 1]

\* The last native call issued was a termination call.
TerminationIssued ==
    /\ hostCalls # <<>>
    /\ hostCalls[Len(hostCalls)].fn \in TerminationCalls

\* C7: once a termination call (finish, revert, selfDestruct) has been issued,
\* nothing changes any more: no wrapper runs and no native call is issued.
C7_TerminationNeverReturns == [][TerminationIssued => UNCHANGED vars]_vars

C7_Witness ==
    /\ op.name = "finish"
    /\ TerminationIssued
    /\ status = "finished"

\* The i-th topic slot of a native log call.
TopicSlot(c, i) ==
    CASE i = 1 -> c.topic1 [] i = 2 -> c.topic2 [] i = 3 -> c.topic3 [] i = 4 -> c.topic4

\* C8: logN passes the topic count N, the N topics in order as non-null
\* pointers, null in the other 4 - N slots, and the payload with its exact
\* length.
C8_LogForwarding ==
    op.name \in Logs
    => LET c == hostCalls[1]
           n == Len(op.topics)
       IN  /\ Len(hostCalls) = 1
           /\ c.fn = "ethereum_log"
           /\ c.numberOfTopics = n
           /\ \A i \in 1..4 :
                TopicSlot(c, i) = IF i <= n THEN PtrTo(op.topics[i]) ELSE NullPtr
           /\ c.dataOffset = PtrTo(op.data)
           /\ c.length = Len(op.data)

\* C9: storage_load(key) returns the value this execution last stored at
\* key, whatever was stored at other keys in between.
C9_StorageRoundTrip ==
    (op.name = "storage_load" /\ stored[op.key] # <<>>)
    => ret = Value(stored[op.key][1])

C9_Witness ==
    /\ op.name = "storage_load"
    /\ op.key = 0
    /\ stored[0] = <<1>>
    /\ stored[1] = <<0>>
    /\ ret = Value(1)

\* The length the last copy operation was asked for.
RequestedLength ==
    IF op.name \in Acquires THEN Len(ExternalBuffer) ELSE op.length

\* C10: a buffer returned by a copy operation (unchecked, checked or
\* acquire) has the requested length and holds no byte the allocator left.
C10_NoUninitialisedByte ==
    (/\ op.name \in UncheckedCopies \cup CheckedCopies \cup Acquires
     /\ status = "running"
     /\ ret.tag \in {"Vec", "Ok"})
    => /\ Len(ret.val) = RequestedLength
       /\ \A i \in 1..Len(ret.val) : ret.val[i] # Uninit

\* C11: when a checked copy passes its bounds test and issues the native
\* copy call, the narrowed offset and length the host receives are the
\* requested from and length, and the range lies inside the reported size.
C11_CheckedPathNarrowingExact ==
    (op.name \in CheckedCopies /\ Len(hostCalls) = 2)
    => LET size == hostCalls[1].result
           c == hostCalls[2]
       IN  /\ size = Len(ExternalBuffer)
           /\ size <= U32_MAX
           /\ c.dataOffset = op.from
           /\ c.length = op.length
           /\ c.dataOffset + c.length <= size

C11_Witness ==
    /\ op.name = "calldata_copy"
    /\ Len(hostCalls) = 2
    /\ Len(calldata) = MaxSize
    /\ op.from = 1
    /\ op.length = MaxSize - 1
    /\ hostCalls[2] = [fn |-> "ethereum_callDataCopy", dataOffset |-> 1,
                       length |-> MaxSize - 1]

====
